---- MODULE Spec2Model ----
(***************************************************************************)
(* Brand Origin Lookup: the multi-provider query-and-normalize pipeline    *)
(* (services/companyService.ts), the settings store                        *)
(* (services/storageService.ts), and the App / SearchForm state that       *)
(* drives it (App.tsx, components/SearchForm.tsx).                         *)
(*                                                                         *)
(* Strings that the code parses or matches with regular expressions are    *)
(* modelled as sequences of lexemes (a lexeme is a run of characters that  *)
(* the code's regular expressions and JSON.parse never split: a brace, a   *)
(* quote, a code fence, a whitespace character, a word).  JavaScript       *)
(* values are tagged records.                                              *)
(***************************************************************************)
EXTENDS Integers, Sequences, FiniteSets, TLC

VARIABLES
    stored,          \* localStorage[LLM_SETTINGS_KEY], as an LlmSettings record
    currentPage,     \* App: 'home' | 'settings'
    llmConfigured,   \* App: boolean
    companyData,     \* App: CompanyData | null
    debugInfo,       \* App: DebugInfo | null
    isLoading,       \* App: boolean
    error,           \* App: string | null
    useVoiceOutput,  \* App: boolean
    companyName,     \* SearchForm: text field value
    isListening,     \* SearchForm: boolean
    recognition,     \* SearchForm: state of recognitionRef.current
    timers,          \* SearchForm: transcripts of pending setTimeout callbacks
    calls,           \* lookupCompany calls awaiting their HTTP response
    lastCall,        \* the lookupCompany call that ended last, with its outcome
    saving,          \* Settings: the handleSave call awaiting validateKeys
    savedTimers,     \* Settings: pending setTimeout callbacks of handleSave
    formSettings,    \* Settings: `settings`, the LlmSettings record the form edits
    selectedTab,     \* Settings: index of the selected tab
    keyValid,        \* Settings: openAIKeyValid, anthropicKeyValid, geminiKeyValid
    nContent,        \* normalizer: assistant text handed to an adapter's parser
    nQuery,          \* normalizer: the company name of the lookup
    nOutcome         \* normalizer: the LlmResponse computed from nContent

vars == <<stored, currentPage, llmConfigured, companyData, debugInfo, isLoading,
          error, useVoiceOutput, companyName, isListening, recognition,
          timers, calls, lastCall, saving, savedTimers, formSettings,
          selectedTab, keyValid, nContent, nQuery, nOutcome>>

-----------------------------------------------------------------------------
(* JavaScript values *)

Undefined == [t |-> "undefined"]
Null == [t |-> "null"]
Bool(b) == [t |-> "bool", b |-> b]
Num(n) == [t |-> "num", n |-> n]
Str(s) == [t |-> "str", s |-> s]
Arr(a) == [t |-> "arr", a |-> a]
Obj(o) == [t |-> "obj", o |-> o]

\* A one-word string.
W(w) == Str(<<w>>)

EmptyObj == Obj(<<>>)

\* ToBoolean: the falsy values are undefined, null, false, 0 and ''.
Truthy(v) ==
    CASE v.t = "undefined" -> FALSE
      [] v.t = "null" -> FALSE
      [] v.t = "bool" -> v.b
      [] v.t = "num" -> v.n # 0
      [] v.t = "str" -> v.s # <<>>
      [] OTHER -> TRUE

\* a || b
OrElse(a, b) == IF Truthy(a) THEN a ELSE b

\* Reading a property of null or undefined throws a TypeError.
Throws(v) == v.t \in {"undefined", "null"}

\* v.key for a value that is not null or undefined: an own property of an
\* object, undefined otherwise (none of the keys read here is a property of
\* a string, number, boolean or array).
Get(v, key) ==
    IF v.t = "obj" /\ <<key>> \in DOMAIN v.o THEN v.o[<<key>>] ELSE Undefined

\* v?.key
GetOpt(v, key) == IF Throws(v) THEN Undefined ELSE Get(v, key)

\* v[0] for a value that is not null or undefined.
First(v) ==
    IF v.t = "arr" /\ Len(v.a) > 0 THEN v.a[1] ELSE Undefined

\* Array.isArray(v)
IsArray(v) == v.t = "arr"

-----------------------------------------------------------------------------
(* Text: sequences of lexemes *)

WS == {" ", "\n"}
Quote == "\""
\* The lexeme of a code fence (three backquotes).
Fence == "<fence>"

\* Numeric literals of the replies, with their values.
NumLex == {"0", "7", "1999"}
NumVal(x) == CASE x = "0" -> 0 [] x = "7" -> 7 [] OTHER -> 1999

\* String.prototype.trim
RECURSIVE TrimLeft(_)
TrimLeft(s) ==
    IF s # <<>> /\ Head(s) \in WS THEN TrimLeft(Tail(s)) ELSE s

RECURSIVE TrimRight(_)
TrimRight(s) ==
    IF s # <<>> /\ s[Len(s)] \in WS THEN TrimRight(SubSeq(s, 1, Len(s) - 1)) ELSE s

Trim(s) == TrimRight(TrimLeft(s))

\* Index of the first lexeme at or after i that is not whitespace
\* (Len(s) + 1 when there is none).
RECURSIVE SkipWS(_, _)
SkipWS(s, i) ==
    IF i <= Len(s) /\ s[i] \in WS THEN SkipWS(s, i + 1) ELSE i

\* Index of the first occurrence of lexeme x at or after i (0 when none).
RECURSIVE IndexFrom(_, _, _)
IndexFrom(s, x, i) ==
    IF i > Len(s) THEN 0
    ELSE IF s[i] = x THEN i
    ELSE IndexFrom(s, x, i + 1)

-----------------------------------------------------------------------------
(* JSON.parse *)

ParseFail == [ok |-> FALSE]
Parsed(v, next) == [ok |-> TRUE, val |-> v, next |-> next]

\* A string literal that opens at s[i]: it closes at the next quote; a raw
\* line break inside a string literal is a syntax error.
ParseString(s, i) ==
    LET j == IndexFrom(s, Quote, i + 1)
    IN  IF j = 0 THEN ParseFail
        ELSE IF \E k \in (i + 1)..(j - 1) : s[k] = "\n" THEN ParseFail
        ELSE Parsed(Str(SubSeq(s, i + 1, j - 1)), j + 1)

RECURSIVE ParseValue(_, _)
RECURSIVE ParseMembers(_, _, _)
RECURSIVE ParseElements(_, _, _)

\* The members of an object after its opening brace or after a comma: i is
\* the index where a key is expected, o the members read so far (a later
\* duplicate key replaces an earlier one).
ParseMembers(s, i, o) ==
    IF i > Len(s) \/ s[i] # Quote THEN ParseFail
    ELSE LET k == ParseString(s, i)
         IN  IF ~k.ok THEN ParseFail
             ELSE LET c == SkipWS(s, k.next)
                  IN  IF c > Len(s) \/ s[c] # ":" THEN ParseFail
                      ELSE LET v == ParseValue(s, SkipWS(s, c + 1))
                           IN  IF ~v.ok THEN ParseFail
                               ELSE LET e == SkipWS(s, v.next)
                                        o2 == (k.val.s :> v.val) @@ o
                                    IN  IF e > Len(s) THEN ParseFail
                                        ELSE IF s[e] = "}" THEN Parsed(Obj(o2), e + 1)
                                        ELSE IF s[e] = "," THEN ParseMembers(s, SkipWS(s, e + 1), o2)
                                        ELSE ParseFail

\* The elements of an array after its opening bracket or after a comma.
ParseElements(s, i, a) ==
    LET v == ParseValue(s, i)
    IN  IF ~v.ok THEN ParseFail
        ELSE LET e == SkipWS(s, v.next)
                 a2 == Append(a, v.val)
             IN  IF e > Len(s) THEN ParseFail
                 ELSE IF s[e] = "]" THEN Parsed(Arr(a2), e + 1)
                 ELSE IF s[e] = "," THEN ParseElements(s, SkipWS(s, e + 1), a2)
                 ELSE ParseFail

\* The JSON value that starts at s[i] (i is past any leading whitespace).
ParseValue(s, i) ==
    IF i > Len(s) THEN ParseFail
    ELSE CASE s[i] = "{" ->
                LET j == SkipWS(s, i + 1)
                IN  IF j <= Len(s) /\ s[j] = "}" THEN Parsed(EmptyObj, j + 1)
                    ELSE ParseMembers(s, j, <<>>)
           [] s[i] = "[" ->
                LET j == SkipWS(s, i + 1)
                IN  IF j <= Len(s) /\ s[j] = "]" THEN Parsed(Arr(<<>>), j + 1)
                    ELSE ParseElements(s, j, <<>>)
           [] s[i] = Quote -> ParseString(s, i)
           [] s[i] = "null" -> Parsed(Null, i + 1)
           [] s[i] = "true" -> Parsed(Bool(TRUE), i + 1)
           [] s[i] = "false" -> Parsed(Bool(FALSE), i + 1)
           [] s[i] \in NumLex -> Parsed(Num(NumVal(s[i])), i + 1)
           [] OTHER -> ParseFail

\* JSON.parse(s): one value, with whitespace allowed around it and nothing
\* else; ok = FALSE stands for the SyntaxError.
JSONparse(s) ==
    LET v == ParseValue(s, SkipWS(s, 1))
    IN  IF v.ok /\ SkipWS(s, v.next) > Len(s) THEN [ok |-> TRUE, val |-> v.val]
        ELSE ParseFail

-----------------------------------------------------------------------------
(* String conversion and template literals *)

\* The decimal numeral of a number, as one lexeme.
Numeral(n) == ToString(n)

RECURSIVE Join(_)
RECURSIVE ToText(_)

\* String(v), the conversion a template literal applies.
ToText(v) ==
    CASE v.t = "str" -> v.s
      [] v.t = "num" -> <<Numeral(v.n)>>
      [] v.t = "bool" -> IF v.b THEN <<"true">> ELSE <<"false">>
      [] v.t = "null" -> <<"null">>
      [] v.t = "undefined" -> <<"undefined">>
      [] v.t = "arr" -> Join(v.a)
      [] OTHER -> <<"[object Object]">>

\* Array.prototype.join(','), which String applies to an array.
Join(a) ==
    IF a = <<>> THEN <<>>
    ELSE LET h == IF Throws(Head(a)) THEN <<>> ELSE ToText(Head(a))
         IN  IF Len(a) = 1 THEN h ELSE h \o <<",">> \o Join(Tail(a))

\* s.includes(sub)
Includes(s, sub) ==
    \E i \in 1..(Len(s) - Len(sub) + 1) : SubSeq(s, i, i + Len(sub) - 1) = sub

-----------------------------------------------------------------------------
(* The extraction of a JSON candidate from the assistant's text *)

NoMatch == [found |-> FALSE]

\* content.match(/```(?:json)?\s*([\s\S]*?)\s*```/): the match starts at the
\* first fence that has a fence after it; the optional tag and the
\* whitespace after it are consumed greedily, the group is lazy, so it ends
\* before the whitespace that precedes the next fence.  g0 is the whole
\* match and g1 the group.
FenceMatch(c) ==
    LET p == IndexFrom(c, Fence, 1)
        q == IF p = 0 THEN 0 ELSE IndexFrom(c, Fence, p + 1)
    IN  IF q = 0 THEN NoMatch
        ELSE LET a == IF c[p + 1] = "json" THEN p + 2 ELSE p + 1
                 b == SkipWS(c, a)
             IN  [found |-> TRUE,
                  g0 |-> SubSeq(c, p, q),
                  g1 |-> TrimRight(SubSeq(c, b, q - 1))]

\* content.match(/{[\s\S]*?}/): from the first opening brace to the first
\* closing brace after it (the quantifier is lazy); the regular expression
\* has no group, so g1 is the empty text.
BraceMatch(c) ==
    LET p == IndexFrom(c, "{", 1)
        q == IF p = 0 THEN 0 ELSE IndexFrom(c, "}", p + 1)
    IN  IF q = 0 THEN NoMatch
        ELSE [found |-> TRUE, g0 |-> SubSeq(c, p, q), g1 |-> <<>>]

\* content.match(fenced) || content.match(braces)
jsonMatch(c) ==
    IF FenceMatch(c).found THEN FenceMatch(c) ELSE BraceMatch(c)

\* jsonMatch[1] || jsonMatch[0]
jsonString(m) == IF m.g1 # <<>> THEN m.g1 ELSE m.g0

\* s.replace(/^```json\s*|\s*```$/g, ''): a leading tagged fence with the
\* whitespace after it, and a trailing fence with the whitespace before it.
StripFences(s) ==
    LET s1 == IF Len(s) >= 2 /\ s[1] = Fence /\ s[2] = "json"
              THEN SubSeq(s, SkipWS(s, 3), Len(s))
              ELSE s
    IN  IF s1 # <<>> /\ s1[Len(s1)] = Fence
        THEN TrimRight(SubSeq(s1, 1, Len(s1) - 1))
        ELSE s1

\* jsonString.trim().replace(...)
cleanedJson(m) == StripFences(Trim(jsonString(m)))

-----------------------------------------------------------------------------
(* The normalizer *)

InformationNotAvailable == Str(<<"Information", " ", "not", " ", "available">>)
Global == Arr(<<W("Global")>>)

\* The fields of the reply are copied as they are.
formatCompanyDataVerbatim(data, query) ==
    [name |-> Get(data, "name"),
     headquarters |-> Get(data, "headquarters"),
     founded |-> Get(data, "founded"),
     businessRegions |-> Get(data, "businessRegions"),
     mainMarkets |-> Get(data, "mainMarkets"),
     additionalInfo |-> Get(data, "additionalInfo")]

\* The founding year is never taken from the reply.
formatCompanyDataNoFounded(data, query) ==
    [name |-> OrElse(Get(data, "name"), Str(query)),
     headquarters |-> OrElse(Get(data, "headquarters"), InformationNotAvailable),
     founded |-> InformationNotAvailable,
     businessRegions |-> IF IsArray(Get(data, "businessRegions"))
                         THEN Get(data, "businessRegions") ELSE Global,
     mainMarkets |-> IF IsArray(Get(data, "mainMarkets"))
                     THEN Get(data, "mainMarkets") ELSE Global,
     additionalInfo |-> OrElse(Get(data, "additionalInfo"), Undefined)]

\* The two lists default as the strings do, by truthiness.
formatCompanyDataTruthy(data, query) ==
    [name |-> OrElse(Get(data, "name"), Str(query)),
     headquarters |-> OrElse(Get(data, "headquarters"), InformationNotAvailable),
     founded |-> OrElse(Get(data, "founded"), InformationNotAvailable),
     businessRegions |-> OrElse(Get(data, "businessRegions"), Global),
     mainMarkets |-> OrElse(Get(data, "mainMarkets"), Global),
     additionalInfo |-> OrElse(Get(data, "additionalInfo"), Undefined)]

\* formatCompanyData(data, companyName), for data that is not null (reading
\* data.name of null throws a TypeError, which the callers catch).
formatCompanyData(data, query) ==
    [name |-> OrElse(Get(data, "name"), Str(query)),
     headquarters |-> OrElse(Get(data, "headquarters"), InformationNotAvailable),
     founded |-> OrElse(Get(data, "founded"), InformationNotAvailable),
     businessRegions |-> IF IsArray(Get(data, "businessRegions"))
                         THEN Get(data, "businessRegions") ELSE Global,
     mainMarkets |-> IF IsArray(Get(data, "mainMarkets"))
                     THEN Get(data, "mainMarkets") ELSE Global,
     additionalInfo |-> OrElse(Get(data, "additionalInfo"), Undefined)]

\* LlmResponse
Success(data) == [success |-> TRUE, data |-> data, error |-> Undefined]
Failure(message) == [success |-> FALSE, data |-> Undefined, error |-> Str(message)]

ParseErrorPrefix == "Failed to parse JSON response: "

\* The inner try/catch of an adapter: the candidate is extracted from the
\* text, cleaned, parsed and normalized; every exception becomes a failure.
ExtractAndParse(content, query) ==
    IF content.t # "str"
    THEN Failure(<<ParseErrorPrefix, "TypeError: content.match is not a function">>)
    ELSE LET m == jsonMatch(content.s)
         IN  IF ~m.found
             THEN Failure(<<ParseErrorPrefix, "Error: No JSON found in response">>)
             ELSE LET r == JSONparse(cleanedJson(m))
                  IN  IF ~r.ok
                      THEN Failure(<<ParseErrorPrefix, "SyntaxError">>)
                      ELSE IF Throws(r.val)
                      THEN Failure(<<ParseErrorPrefix, "TypeError: Cannot read properties of null">>)
                      ELSE Success(formatCompanyData(r.val, query))

\* The parse-and-normalize tail of an adapter, from a truthy content: the
\* text is parsed directly first; when that throws (a SyntaxError, or the
\* TypeError of normalizing null), the candidate extraction runs.
ParseContent(content, query) ==
    LET r == JSONparse(ToText(content))
    IN  IF r.ok /\ ~Throws(r.val)
        THEN Success(formatCompanyData(r.val, query))
        ELSE ExtractAndParse(content, query)

-----------------------------------------------------------------------------
(* The settings store *)

DefaultSettings ==
    [openaiApiKey |-> "",
     openaiModel |-> "gpt-3.5-turbo",
     openaiBaseUrl |-> "https://proxy.shopify.ai/v1",
     anthropicApiKey |-> "",
     anthropicModel |-> "claude-2",
     anthropicBaseUrl |-> "https://api.anthropic.com/v1",
     geminiApiKey |-> "",
     geminiModel |-> "google:gemini-1.5-flash",
     geminiBaseUrl |-> "https://proxy.shopify.ai/v1",
     preferredProvider |-> "openai"]

\* getStoredLlmSettings(): the stored record (the variable holds the
\* defaults when nothing was saved).
getStoredLlmSettings(storage) == storage

\* saveLlmSettings(settings): the new content of the store.
saveLlmSettings(settings) == settings

-----------------------------------------------------------------------------
(* The provider adapters *)

createCompanyPrompt(query) ==
    <<"I need information about the company ", Quote>> \o query
        \o <<Quote, " in a specific JSON format. ...">>

\* JSON.stringify(value, null, indent), kept as the value it serializes and
\* the indentation.
Stringify(v, indent) == [json |-> v, indent |-> indent]

\* The debug record an adapter builds after fetch has returned.
DebugRecord(provider, model, prompt, raw) ==
    [provider |-> provider, model |-> model, prompt |-> prompt, rawResponse |-> raw]

\* The catch reports a failure without the description of the error.
CaughtWithoutDescription(provider, prefix, model, query, err) ==
    [response |-> Failure(<<prefix>>),
     debug |-> DebugRecord(provider, model, createCompanyPrompt(query),
                           Stringify(EmptyObj, 0))]

\* The outer catch of an adapter: the failure outcome and the debug record
\* built from the thrown error.
Caught(provider, prefix, model, query, err) ==
    [response |-> Failure(<<prefix>> \o err),
     debug |-> DebugRecord(provider, model, createCompanyPrompt(query),
                           Stringify(Obj(<<"error">> :> Str(err)), 0))]

\* The error branch of an adapter (response.ok is false), from the parsed
\* error body, which is not null.
ApiError(provider, prefix, model, query, errorData, statusText) ==
    [response |-> Failure(<<prefix>> \o
                     ToText(OrElse(GetOpt(Get(errorData, "error"), "message"),
                                   Str(statusText)))),
     debug |-> DebugRecord(provider, model, createCompanyPrompt(query),
                           Stringify(errorData, 2))]

\* The tail of an adapter once the assistant's content has been read from
\* the response body.
FromContent(provider, emptyMessage, model, query, data, content) ==
    [response |-> IF ~Truthy(content) THEN Failure(<<emptyMessage>>)
                  ELSE ParseContent(content, query),
     debug |-> DebugRecord(provider, model, createCompanyPrompt(query),
                           Stringify(data, 2))]

SyntaxErrorText == <<"SyntaxError: Unexpected token">>
TypeErrorText == <<"TypeError: Cannot read properties">>

\* The HTTP request of queryOpenAI.
OpenAIRequest(query, apiKey, model, baseUrl) ==
    [url |-> <<baseUrl, "/chat/completions">>,
     headers |-> [Authorization |-> <<"Bearer ", apiKey>>],
     model |-> IF model # "" THEN model ELSE "gpt-3.5-turbo",
     messages |-> <<[role |-> "system"],
                    [role |-> "user", content |-> createCompanyPrompt(query)]>>]

\* queryOpenAI, from the outcome net of its one fetch call to its result.
queryOpenAI(query, apiKey, model, baseUrl, net) ==
    LET caught(err) == Caught("OpenAI", "OpenAI API request failed: ", model, query, err)
    IN  IF net.kind = "reject" THEN caught(net.err)
        ELSE IF ~net.body.json THEN caught(SyntaxErrorText)
        ELSE IF ~net.ok
        THEN IF Throws(net.body.val) THEN caught(TypeErrorText)
             ELSE ApiError("OpenAI", "OpenAI API error: ", model, query,
                           net.body.val, net.statusText)
        ELSE LET data == net.body.val
             IN  IF Throws(data) \/ Throws(Get(data, "choices"))
                 THEN caught(TypeErrorText)
                 ELSE FromContent("OpenAI", "Empty response from OpenAI", model, query, data,
                          GetOpt(GetOpt(First(Get(data, "choices")), "message"), "content"))

\* The HTTP request of queryAnthropic.
AnthropicRequest(query, apiKey, model, baseUrl) ==
    [url |-> <<baseUrl, "/messages">>,
     headers |-> [xApiKey |-> apiKey, anthropicVersion |-> "2023-06-01"],
     model |-> IF model # "" THEN model ELSE "claude-2",
     messages |-> <<[role |-> "user", content |-> createCompanyPrompt(query)]>>]

\* queryAnthropic, from the outcome net of its one fetch call to its result.
queryAnthropic(query, apiKey, model, baseUrl, net) ==
    LET caught(err) == Caught("Anthropic", "Anthropic API request failed: ", model, query, err)
    IN  IF net.kind = "reject" THEN caught(net.err)
        ELSE IF ~net.body.json THEN caught(SyntaxErrorText)
        ELSE IF ~net.ok
        THEN IF Throws(net.body.val) THEN caught(TypeErrorText)
             ELSE ApiError("Anthropic", "Anthropic API error: ", model, query,
                           net.body.val, net.statusText)
        ELSE LET data == net.body.val
             IN  IF Throws(data) THEN caught(TypeErrorText)
                 ELSE LET first == IF Throws(Get(data, "content")) THEN Undefined
                              ELSE First(Get(data, "content"))
                      IN  FromContent("Anthropic", "Empty response from Anthropic", model,
                                      query, data, GetOpt(first, "text"))

\* The HTTP request of queryGemini.
GeminiRequest(query, apiKey, model, baseUrl) ==
    [url |-> <<baseUrl, "/chat/completions">>,
     headers |-> [Authorization |-> <<"Bearer ", apiKey>>],
     model |-> IF model # "" THEN model ELSE "google:gemini-1.5-flash",
     messages |-> <<[role |-> "user", content |-> createCompanyPrompt(query)]>>]

\* queryGemini, from the outcome net of its one fetch call to its result.
queryGemini(query, apiKey, model, baseUrl, net) ==
    LET caught(err) == Caught("Google Gemini", "Gemini API request failed: ", model, query, err)
    IN  IF net.kind = "reject" THEN caught(net.err)
        ELSE IF ~net.body.json THEN caught(SyntaxErrorText)
        ELSE IF ~net.ok
        THEN IF Throws(net.body.val) THEN caught(TypeErrorText)
             ELSE ApiError("Google Gemini", "Gemini API error: ", model, query,
                           net.body.val, net.statusText)
        ELSE LET data == net.body.val
             IN  IF Throws(data) \/ Throws(Get(data, "choices"))
                 THEN caught(TypeErrorText)
                 ELSE FromContent("Google Gemini", "Empty response from Gemini", model, query,
                          data,
                          GetOpt(GetOpt(First(Get(data, "choices")), "message"), "content"))

-----------------------------------------------------------------------------
(* The lookup orchestrator *)

\* hasUserKeys with the key check lost: every settings record passes.
hasUserKeysAlways(settings) == settings = settings

\* hasUserKeys of lookupCompany.
hasUserKeys(settings) ==
    settings.openaiApiKey # "" \/ settings.anthropicApiKey # "" \/ settings.geminiApiKey # ""

Invoke(adapter, apiKey, model, baseUrl) ==
    [adapter |-> adapter, apiKey |-> apiKey, model |-> model, baseUrl |-> baseUrl]

\* The if-chain without its two preference branches: the fixed order only.
SelectAdapterIgnoringPreference(settings) ==
    IF settings.openaiApiKey # ""
    THEN Invoke("queryOpenAI", settings.openaiApiKey, settings.openaiModel,
                settings.openaiBaseUrl)
    ELSE IF settings.anthropicApiKey # ""
    THEN Invoke("queryAnthropic", settings.anthropicApiKey, settings.anthropicModel,
                settings.anthropicBaseUrl)
    ELSE IF settings.geminiApiKey # ""
    THEN Invoke("queryGemini", settings.geminiApiKey, settings.geminiModel,
                settings.geminiBaseUrl)
    ELSE Invoke("none", "", "", "")

\* The if-chain with the fallback branches of OpenAI and Anthropic swapped.
SelectAdapterSwappedFallback(settings) ==
    IF settings.preferredProvider = "gemini" /\ settings.geminiApiKey # ""
    THEN Invoke("queryGemini", settings.geminiApiKey, settings.geminiModel,
                settings.geminiBaseUrl)
    ELSE IF settings.preferredProvider = "anthropic" /\ settings.anthropicApiKey # ""
    THEN Invoke("queryAnthropic", settings.anthropicApiKey, settings.anthropicModel,
                settings.anthropicBaseUrl)
    ELSE IF settings.anthropicApiKey # ""
    THEN Invoke("queryAnthropic", settings.anthropicApiKey, settings.anthropicModel,
                settings.anthropicBaseUrl)
    ELSE IF settings.openaiApiKey # ""
    THEN Invoke("queryOpenAI", settings.openaiApiKey, settings.openaiModel,
                settings.openaiBaseUrl)
    ELSE IF settings.geminiApiKey # ""
    THEN Invoke("queryGemini", settings.geminiApiKey, settings.geminiModel,
                settings.geminiBaseUrl)
    ELSE Invoke("none", "", "", "")

\* The if-chain of lookupCompany that determines the adapter to call and
\* its arguments; adapter "none" is the final else, which throws.
SelectAdapter(settings) ==
    IF settings.preferredProvider = "gemini" /\ settings.geminiApiKey # ""
    THEN Invoke("queryGemini", settings.geminiApiKey, settings.geminiModel,
                settings.geminiBaseUrl)
    ELSE IF settings.preferredProvider = "anthropic" /\ settings.anthropicApiKey # ""
    THEN Invoke("queryAnthropic", settings.anthropicApiKey, settings.anthropicModel,
                settings.anthropicBaseUrl)
    ELSE IF settings.openaiApiKey # ""
    THEN Invoke("queryOpenAI", settings.openaiApiKey, settings.openaiModel,
                settings.openaiBaseUrl)
    ELSE IF settings.anthropicApiKey # ""
    THEN Invoke("queryAnthropic", settings.anthropicApiKey, settings.anthropicModel,
                settings.anthropicBaseUrl)
    ELSE IF settings.geminiApiKey # ""
    THEN Invoke("queryGemini", settings.geminiApiKey, settings.geminiModel,
                settings.geminiBaseUrl)
    ELSE Invoke("none", "", "", "")

\* The HTTP request the invoked adapter issues.
RequestOf(inv, query) ==
    CASE inv.adapter = "queryOpenAI" ->
            OpenAIRequest(query, inv.apiKey, inv.model, inv.baseUrl)
      [] inv.adapter = "queryAnthropic" ->
            AnthropicRequest(query, inv.apiKey, inv.model, inv.baseUrl)
      [] OTHER -> GeminiRequest(query, inv.apiKey, inv.model, inv.baseUrl)

\* The result of the invoked adapter, given the outcome of its fetch.
AdapterResult(inv, query, net) ==
    CASE inv.adapter = "queryOpenAI" ->
            queryOpenAI(query, inv.apiKey, inv.model, inv.baseUrl, net)
      [] inv.adapter = "queryAnthropic" ->
            queryAnthropic(query, inv.apiKey, inv.model, inv.baseUrl, net)
      [] OTHER -> queryGemini(query, inv.apiKey, inv.model, inv.baseUrl, net)

NoKeysMessage ==
    Str(<<"No API keys configured. Please add an API key in Settings to use this app.">>)
NoConfigMessage == Str(<<"No valid LLM configuration found">>)
FailedMessage == Str(<<"Failed to get company information">>)

Thrown(message) == [threw |-> TRUE, message |-> message]
Returned(data, debug) == [threw |-> FALSE, data |-> data, debug |-> debug]

\* The end of lookupCompany with the adapter's message replaced by the
\* generic one.
lookupCompanyEndGeneric(result) ==
    IF ~result.response.success \/ result.response.data = Undefined
    THEN Thrown(FailedMessage)
    ELSE Returned(result.response.data, result.debug)

\* The end of lookupCompany, from the adapter's result: the failure is
\* thrown, the success is returned with the debug record.
lookupCompanyEnd(result) ==
    IF ~result.response.success \/ result.response.data = Undefined
    THEN Thrown(OrElse(result.response.error, FailedMessage))
    ELSE Returned(result.response.data, result.debug)

-----------------------------------------------------------------------------
(* Inputs *)

MaxInFlight == 2

\* Company names: empty, blank, and two names.
Acme == <<"Acme">>
Nike == <<"Nike">>
QueryNames == {<<>>, <<" ">>, Acme, Nike}

\* Company names passed to lookupCompany by a caller other than the App.
LookupNames == {<<>>, Acme}

KeyOf(provider) ==
    CASE provider = "openai" -> "sk-openai"
      [] provider = "anthropic" -> "sk-ant"
      [] OTHER -> "gemini-key"

Providers == {"openai", "anthropic", "gemini"}

\* The settings with the keys of the providers in ps, the preferred
\* provider pref, and the models all left at their defaults or all cleared.
SettingsWith(ps, pref, models) ==
    [DefaultSettings EXCEPT
        !.openaiApiKey = IF "openai" \in ps THEN KeyOf("openai") ELSE "",
        !.anthropicApiKey = IF "anthropic" \in ps THEN KeyOf("anthropic") ELSE "",
        !.geminiApiKey = IF "gemini" \in ps THEN KeyOf("gemini") ELSE "",
        !.openaiModel = IF models THEN @ ELSE "",
        !.anthropicModel = IF models THEN @ ELSE "",
        !.geminiModel = IF models THEN @ ELSE "",
        !.preferredProvider = pref]

AllSettings ==
    {SettingsWith(ps, pref, models) :
        ps \in SUBSET Providers, pref \in Providers, models \in BOOLEAN}

\* Texts of an assistant's reply.
Q == Quote
Member(key, value) == <<Q, key, Q, ":">> \o value
Lit(w) == <<Q, w, Q>>
FullObjectText ==
    <<"{">> \o Member("name", Lit("Acme Corp")) \o <<",">>
            \o Member("headquarters", Lit("Paris")) \o <<",">>
            \o Member("founded", Lit("1999")) \o <<",">>
            \o Member("businessRegions", <<"[">> \o Lit("EU") \o <<"]">>) \o <<",">>
            \o Member("mainMarkets", <<"[">> \o Lit("EU") \o <<",">> \o Lit("US") \o <<"]">>)
            \o <<"}">>
SparseObjectText == <<"{">> \o Member("headquarters", Lit("Oslo")) \o <<"}">>
FencedText == <<Fence, "json", "\n">> \o FullObjectText \o <<"\n", Fence>>
ProseText == <<"I", " ", "do", " ", "not", " ", "know">>

\* Response bodies in the envelope of each provider.
Field(key, value) == <<key>> :> value
ChoicesBody(content) ==
    Obj(Field("choices", Arr(<<Obj(Field("message", Obj(Field("content", content))))>>)))
ContentBody(text) ==
    Obj(Field("content", Arr(<<Obj(Field("text", text))>>)))
InvalidKeyBody ==
    Obj(Field("error", Obj(Field("message", Str(<<"invalid", " ", "key">>)))))

Json(v) == [json |-> TRUE, val |-> v]
NotJson == [json |-> FALSE]
Rejected == [kind |-> "reject", err |-> <<"TypeError: Failed to fetch">>]
Response(ok, statusText, body) ==
    [kind |-> "response", ok |-> ok, statusText |-> statusText, body |-> body]

\* Outcomes of a fetch call.
NetOutcomes ==
    {Rejected,
     Response(FALSE, <<"Unauthorized">>, Json(InvalidKeyBody)),
     Response(FALSE, <<"Bad Gateway">>, NotJson),
     Response(TRUE, <<"OK">>, Json(EmptyObj)),
     Response(TRUE, <<"OK">>, Json(Obj(Field("choices", Arr(<<>>))))),
     Response(TRUE, <<"OK">>, Json(ChoicesBody(Null))),
     Response(TRUE, <<"OK">>, Json(ChoicesBody(Str(<<>>)))),
     Response(TRUE, <<"OK">>, Json(ChoicesBody(Str(FullObjectText)))),
     Response(TRUE, <<"OK">>, Json(ChoicesBody(Str(SparseObjectText)))),
     Response(TRUE, <<"OK">>, Json(ChoicesBody(Str(ProseText)))),
     Response(TRUE, <<"OK">>, Json(ContentBody(Str(FencedText)))),
     Response(TRUE, <<"OK">>, Json(ContentBody(Str(ProseText))))}

-----------------------------------------------------------------------------
(* lookupCompany *)

NoCall == [ended |-> FALSE]

\* The record of an ended call: what it read, invoked and sent, the outcome
\* of its fetch and the result of its adapter (Null when none ran) and how
\* the call ended.
Ended(call, net, result, outcome) ==
    [ended |-> TRUE, query |-> call.query, snapshot |-> call.snapshot,
     invoked |-> call.invoked, requests |-> call.requests,
     net |-> net, result |-> result, outcome |-> outcome]

\* Every provider that has a key is invoked, the selected one first.
InvocationsFanOut(settings) ==
    <<SelectAdapter(settings)>> \o
    (IF settings.openaiApiKey # "" /\ SelectAdapter(settings).adapter # "queryOpenAI"
     THEN <<Invoke("queryOpenAI", settings.openaiApiKey, settings.openaiModel,
                   settings.openaiBaseUrl)>> ELSE <<>>) \o
    (IF settings.anthropicApiKey # "" /\ SelectAdapter(settings).adapter # "queryAnthropic"
     THEN <<Invoke("queryAnthropic", settings.anthropicApiKey, settings.anthropicModel,
                   settings.anthropicBaseUrl)>> ELSE <<>>)

\* The adapters one lookupCompany call invokes: the selected one, and none
\* when the final else throws.
Invocations(settings) ==
    IF SelectAdapter(settings).adapter = "none" THEN <<>>
    ELSE <<SelectAdapter(settings)>>

\* A lookupCompany call from its start to its first await: the settings are
\* read once; without keys the call throws; otherwise the selected adapter
\* is invoked and runs up to its fetch.
NewCall(query, settings) ==
    [query |-> query, snapshot |-> settings,
     invoked |-> Invocations(settings),
     requests |-> [k \in DOMAIN Invocations(settings) |->
                      RequestOf(Invocations(settings)[k], query)]]

\* What lookupCompany throws before any await, if anything.
ThrowsAtStart(settings) ==
    IF ~hasUserKeys(settings) THEN Thrown(NoKeysMessage)
    ELSE IF Invocations(settings) = <<>> THEN Thrown(NoConfigMessage)
    ELSE [threw |-> FALSE]

\* lookupCompany(query) up to its first await.
LookupStart(query) ==
    LET settings == getStoredLlmSettings(stored)
        call == NewCall(query, settings)
    IN  IF ThrowsAtStart(settings).threw
        THEN /\ lastCall' = Ended([call EXCEPT !.invoked = <<>>, !.requests = <<>>],
                                  Null, Null, ThrowsAtStart(settings))
             /\ calls' = calls
        ELSE /\ calls' = Append(calls, call)
             /\ lastCall' = lastCall

Remove(seq, i) == SubSeq(seq, 1, i - 1) \o SubSeq(seq, i + 1, Len(seq))

\* The adapter is chosen again, from the settings stored when the fetch
\* settles.
LookupResultRereads(call, net) ==
    AdapterResult(SelectAdapter(getStoredLlmSettings(stored)), call.query, net)

\* The result of the call's adapter, given the outcome of its fetch.
LookupResult(call, net) == AdapterResult(call.invoked[1], call.query, net)

\* lookupCompany from the settling of its fetch to its end.
LookupSettles(i, net) ==
    /\ calls' = Remove(calls, i)
    /\ lastCall' = Ended(calls[i], net, LookupResult(calls[i], net),
                         lookupCompanyEnd(LookupResult(calls[i], net)))

-----------------------------------------------------------------------------
(* The orchestrator on its own: lookupCompany called by any caller, under   *)
(* every settings record the store can hold.                               *)

uiVars == <<currentPage, llmConfigured, companyData, debugInfo, isLoading, error,
            useVoiceOutput, companyName, isListening, recognition, timers,
            saving, savedTimers, formSettings, selectedTab,
            keyValid>>
normVars == <<nContent, nQuery, nOutcome>>

\* recognitionRef.current: no session, or a session with its state
\* ("started" after start(), "listening" after onstart, "stopping" after
\* stop(), "result" after onresult) and whether the form that created it
\* has been unmounted since.
NoRecognition == [state |-> "none", orphan |-> FALSE]

\* The state of the Settings component before its load effect has run.
UnloadedForm ==
    /\ formSettings = DefaultSettings
    /\ selectedTab = 0
    /\ keyValid = [provider \in Providers |-> Null]

InitUI ==
    /\ UnloadedForm
    /\ currentPage = "home"
    /\ llmConfigured = FALSE
    /\ companyData = Null
    /\ debugInfo = Null
    /\ isLoading = FALSE
    /\ error = Null
    /\ useVoiceOutput = FALSE
    /\ companyName = <<>>
    /\ isListening = FALSE
    /\ recognition = NoRecognition
    /\ timers = <<>>
    /\ saving = Null
    /\ savedTimers = 0

InitNorm ==
    /\ nContent = <<>>
    /\ nQuery = <<>>
    /\ nOutcome = Null

InitLookup ==
    /\ stored \in AllSettings
    /\ calls = <<>>
    /\ lastCall = NoCall
    /\ InitUI
    /\ InitNorm

Lookup(query) ==
    /\ Len(calls) < MaxInFlight
    /\ LookupStart(query)
    /\ UNCHANGED <<stored, uiVars, normVars>>

Settle(i, net) ==
    /\ LookupSettles(i, net)
    /\ UNCHANGED <<stored, uiVars, normVars>>

NextLookup ==
    \/ \E query \in LookupNames : Lookup(query)
    \/ \E i \in DOMAIN calls, net \in NetOutcomes : Settle(i, net)

SpecLookup == InitLookup /\ [][NextLookup]_vars

-----------------------------------------------------------------------------
(* The App, the search form and the settings page *)

MaxTimers == 1
MaxSavedTimers == 1

\* Settings the settings page saves: no key, an OpenAI key, and the keys of
\* OpenAI and Anthropic with Anthropic preferred and the models cleared.
AppSettings ==
    {SettingsWith({}, "openai", TRUE),
     SettingsWith({"openai"}, "openai", TRUE),
     SettingsWith({"openai", "anthropic"}, "anthropic", FALSE)}

\* Texts typed in the search field, and transcripts of the recognition.
TypedNames == {<<" ">>, Acme}
Transcripts == {<<>>, Nike}

\* Outcomes of a fetch call of a lookup started from the App.
AppNetOutcomes ==
    {Rejected,
     Response(TRUE, <<"OK">>, Json(ChoicesBody(Str(SparseObjectText)))),
     Response(TRUE, <<"OK">>, Json(ContentBody(Str(FencedText))))}

\* The toast (toastActive, toastContent, toastError) only displays the
\* message that `error` holds or the confirmation of a save, and is left out.
appVars == <<companyData, debugInfo, isLoading, error, useVoiceOutput>>
formVars == <<companyName, isListening, recognition, timers>>
pageVars == <<currentPage, llmConfigured>>
saveVars == <<saving, savedTimers>>
callVars == <<calls, lastCall>>
settingsVars == <<formSettings, selectedTab, keyValid>>

UnableMessage == Str(<<"Unable to find information for this company">>)

\* The search form is rendered on the home page when a key is configured.
SearchFormMounted(page, configured) == page = "home" /\ configured

\* setCurrentPage(page) and the effect that depends on currentPage: when
\* the page changes, llmConfigured is recomputed from the store; the search
\* form loses its state when it is unmounted, and its recognition session,
\* which nothing stops, goes on without it.
setCurrentPage(page) ==
    LET configured == IF page # currentPage
                      THEN hasUserKeys(getStoredLlmSettings(stored))
                      ELSE llmConfigured
    IN  /\ currentPage' = page
        /\ llmConfigured' = configured
        /\ IF SearchFormMounted(currentPage, llmConfigured)
              /\ ~SearchFormMounted(page, configured)
           THEN /\ companyName' = <<>>
                /\ isListening' = FALSE
                /\ recognition' = IF recognition.state = "none" THEN recognition
                                  ELSE [recognition EXCEPT !.orphan = TRUE]
           ELSE UNCHANGED <<companyName, isListening, recognition>>

\* handleSearch without its first line: a blank query is looked up as any
\* other.
handleSearchUnchecked(query, useVoice) ==
    /\ LookupStart(query)
    /\ useVoiceOutput' = useVoice
    /\ debugInfo' = Null
    /\ IF ThrowsAtStart(getStoredLlmSettings(stored)).threw
       THEN /\ error' = ThrowsAtStart(getStoredLlmSettings(stored)).message
            /\ companyData' = Null
            /\ isLoading' = FALSE
       ELSE /\ Len(calls) < MaxInFlight
            /\ isLoading' = TRUE
            /\ error' = Null
            /\ UNCHANGED companyData

\* handleSearch(query, useVoice) up to its await.  A blank query returns at
\* once.  When lookupCompany throws before its first await, the catch and
\* finally blocks run before any other event.
handleSearch(query, useVoice) ==
    IF Trim(query) = <<>>
    THEN UNCHANGED <<appVars, callVars>>
    ELSE /\ LookupStart(query)
         /\ useVoiceOutput' = useVoice
         /\ debugInfo' = Null
         /\ IF ThrowsAtStart(getStoredLlmSettings(stored)).threw
            THEN LET message == OrElse(ThrowsAtStart(getStoredLlmSettings(stored)).message,
                                       UnableMessage)
                 IN  /\ error' = message
                     /\ companyData' = Null
                     /\ isLoading' = FALSE
            ELSE /\ Len(calls) < MaxInFlight
                 /\ isLoading' = TRUE
                 /\ error' = Null
                 /\ UNCHANGED companyData

\* handleSearch from the end of its lookupCompany call: the try, catch and
\* finally blocks.
handleSearchEnd(outcome) ==
    /\ IF outcome.threw
       THEN LET message == OrElse(outcome.message, UnableMessage)
            IN  /\ error' = message
                /\ companyData' = Null
                /\ UNCHANGED debugInfo
       ELSE /\ companyData' = outcome.data
            /\ debugInfo' = outcome.debug
            /\ UNCHANGED error
    /\ isLoading' = FALSE
    /\ UNCHANGED useVoiceOutput

InitApp ==
    /\ stored \in AppSettings
    /\ calls = <<>>
    /\ lastCall = NoCall
    /\ currentPage = "home"
    /\ llmConfigured = hasUserKeys(getStoredLlmSettings(stored))
    /\ companyData = Null
    /\ debugInfo = Null
    /\ isLoading = FALSE
    /\ error = Null
    /\ useVoiceOutput = FALSE
    /\ companyName = <<>>
    /\ isListening = FALSE
    /\ recognition = NoRecognition
    /\ timers = <<>>
    /\ saving = Null
    /\ savedTimers = 0
    /\ UnloadedForm
    /\ InitNorm

\* Navigation to the settings page (navigation item, page action, or the
\* action of the empty state).
GoToSettings ==
    /\ setCurrentPage("settings")
    /\ UNCHANGED <<stored, appVars, timers, saveVars, callVars, normVars, settingsVars>>

\* Navigation to the home page (navigation item or back action).
GoHome ==
    /\ setCurrentPage("home")
    /\ UNCHANGED <<stored, appVars, timers, saveVars, callVars, normVars, settingsVars>>

\* Settings.handleSave with the form holding `settings` (the preferred
\* provider being that of the selected tab): without keys the settings are
\* saved at once; with keys the call awaits validateKeys.
HandleSave(settings) ==
    /\ currentPage = "settings"
    /\ saving = Null
    /\ IF hasUserKeys(settings)
       THEN /\ saving' = settings
            /\ UNCHANGED <<stored, savedTimers>>
       ELSE /\ savedTimers < MaxSavedTimers
            /\ stored' = saveLlmSettings(settings)
            /\ savedTimers' = savedTimers + 1
            /\ UNCHANGED saving
    /\ UNCHANGED <<pageVars, appVars, formVars, callVars, normVars, settingsVars>>

\* validateKeys settles: handleSave saves and arms its timer when a key is
\* valid, and returns otherwise.
ValidationSettles(isValid) ==
    /\ saving # Null
    /\ saving' = Null
    /\ IF isValid
       THEN /\ savedTimers < MaxSavedTimers
            /\ stored' = saveLlmSettings(saving)
            /\ savedTimers' = savedTimers + 1
       ELSE UNCHANGED <<stored, savedTimers>>
    /\ UNCHANGED <<pageVars, appVars, formVars, callVars, normVars, settingsVars>>

\* The timer of handleSave fires: onSettingsSaved.
SavedTimerFires ==
    /\ savedTimers > 0
    /\ savedTimers' = savedTimers - 1
    /\ setCurrentPage("home")
    /\ UNCHANGED <<stored, companyData, debugInfo, isLoading, error, useVoiceOutput,
                   timers, saving, callVars, normVars, settingsVars>>

\* Typing in the text field, which is disabled while loading or listening.
TypeCompanyName(text) ==
    /\ SearchFormMounted(currentPage, llmConfigured)
    /\ ~(isLoading \/ isListening)
    /\ companyName' = text
    /\ UNCHANGED <<stored, pageVars, appVars, isListening, recognition, timers,
                   saveVars, callVars, normVars, settingsVars>>

\* The Search button, disabled for a blank name and while loading or
\* listening: handleSubmit.
ClickSearch ==
    /\ SearchFormMounted(currentPage, llmConfigured)
    /\ ~(Trim(companyName) = <<>> \/ isLoading \/ isListening)
    /\ handleSearch(companyName, FALSE)
    /\ UNCHANGED <<stored, pageVars, formVars, saveVars, normVars, settingsVars>>

\* Enter in the text field: handleKeyPress, handleSubmit.
PressEnter ==
    /\ SearchFormMounted(currentPage, llmConfigured)
    /\ ~(isLoading \/ isListening)
    /\ handleSearch(companyName, FALSE)
    /\ UNCHANGED <<stored, pageVars, formVars, saveVars, normVars, settingsVars>>

\* The microphone button while not listening: startListening creates a
\* recognition session and starts it (one session at a time here).
ClickSpeak ==
    /\ SearchFormMounted(currentPage, llmConfigured)
    /\ ~isListening
    /\ ~(isLoading /\ ~isListening)
    /\ recognition.state = "none"
    /\ recognition' = [state |-> "started", orphan |-> FALSE]
    /\ UNCHANGED <<stored, pageVars, appVars, companyName, isListening, timers,
                   saveVars, callVars, normVars, settingsVars>>

\* recognition.onstart
RecognitionStarts ==
    /\ recognition.state = "started"
    /\ recognition' = [recognition EXCEPT !.state = "listening"]
    /\ isListening' = IF recognition.orphan THEN isListening ELSE TRUE
    /\ UNCHANGED <<stored, pageVars, appVars, companyName, timers, saveVars, callVars,
                   normVars, settingsVars>>

\* recognition.onresult: the transcript fills the text field and a timer is
\* armed that will search for it.
RecognitionResult(transcript) ==
    /\ recognition.state \in {"listening", "stopping"}
    /\ Len(timers) < MaxTimers
    /\ recognition' = [recognition EXCEPT !.state = "result"]
    /\ companyName' = IF recognition.orphan THEN companyName ELSE transcript
    /\ timers' = Append(timers, transcript)
    /\ UNCHANGED <<stored, pageVars, appVars, isListening, saveVars, callVars, normVars, settingsVars>>

\* recognition.onend (after onerror as well).
RecognitionEnds ==
    /\ recognition.state \in {"listening", "stopping", "result"}
    /\ recognition' = NoRecognition
    /\ isListening' = IF recognition.orphan THEN isListening ELSE FALSE
    /\ UNCHANGED <<stored, pageVars, appVars, companyName, timers, saveVars, callVars,
                   normVars, settingsVars>>

\* The microphone button while listening: stopListening.
ClickStop ==
    /\ SearchFormMounted(currentPage, llmConfigured)
    /\ isListening
    /\ recognition.state # "none"
    /\ recognition' = IF recognition.state = "listening"
                      THEN [recognition EXCEPT !.state = "stopping"]
                      ELSE recognition
    /\ isListening' = FALSE
    /\ UNCHANGED <<stored, pageVars, appVars, companyName, timers, saveVars, callVars,
                   normVars, settingsVars>>

\* The timer armed by onresult fires: onSearch(transcript, true).
VoiceTimerFires(i) ==
    /\ handleSearch(timers[i], TRUE)
    /\ timers' = Remove(timers, i)
    /\ UNCHANGED <<stored, pageVars, companyName, isListening, recognition, saveVars,
                   normVars, settingsVars>>

\* The fetch of a lookup settles: lookupCompany ends and handleSearch
\* resumes.
FetchSettles(i, net) ==
    /\ LookupSettles(i, net)
    /\ handleSearchEnd(lookupCompanyEnd(LookupResult(calls[i], net)))
    /\ UNCHANGED <<stored, pageVars, formVars, saveVars, normVars, settingsVars>>

\* The search form with navigation, the stored settings being fixed.
NextSearch ==
    \/ GoToSettings
    \/ GoHome
    \/ \E text \in TypedNames : TypeCompanyName(text)
    \/ ClickSearch
    \/ PressEnter
    \/ ClickSpeak
    \/ RecognitionStarts
    \/ \E transcript \in Transcripts : RecognitionResult(transcript)
    \/ RecognitionEnds
    \/ ClickStop
    \/ \E i \in DOMAIN timers : VoiceTimerFires(i)
    \/ \E i \in DOMAIN calls, net \in AppNetOutcomes : FetchSettles(i, net)

SpecSearch == InitApp /\ [][NextSearch]_vars

\* The settings page with navigation and searches typed in the form. The
\* fields of the settings form are not followed here: HandleSave draws the
\* record the form holds from AppSettings.
NextSettings ==
    \/ GoToSettings
    \/ GoHome
    \/ \E settings \in AppSettings : HandleSave(settings)
    \/ \E isValid \in BOOLEAN : ValidationSettles(isValid)
    \/ SavedTimerFires
    \/ \E text \in TypedNames : TypeCompanyName(text)
    \/ ClickSearch
    \/ PressEnter
    \/ \E i \in DOMAIN calls, net \in AppNetOutcomes : FetchSettles(i, net)

SpecSettings == InitApp /\ [][NextSettings]_vars

-----------------------------------------------------------------------------
(* The Settings component during one visit of the settings page: its form, *)
(* handleSave, and validateKeys one key at a time.                          *)

\* The tab selected for a preferred provider by the load effect, and the
\* provider handleSave stores for a tab.
TabOf(provider) ==
    CASE provider = "anthropic" -> 1
      [] provider = "gemini" -> 2
      [] OTHER -> 0

ProviderOfTab(tab) ==
    CASE tab = 0 -> "openai"
      [] tab = 1 -> "anthropic"
      [] OTHER -> "gemini"

KeyField(provider) ==
    CASE provider = "openai" -> "openaiApiKey"
      [] provider = "anthropic" -> "anthropicApiKey"
      [] OTHER -> "geminiApiKey"

ModelField(provider) ==
    CASE provider = "openai" -> "openaiModel"
      [] provider = "anthropic" -> "anthropicModel"
      [] OTHER -> "geminiModel"

BaseUrlField(provider) ==
    CASE provider = "openai" -> "openaiBaseUrl"
      [] provider = "anthropic" -> "anthropicBaseUrl"
      [] OTHER -> "geminiBaseUrl"

\* The provider whose panel shows a field.
ProviderOfField(field) ==
    CHOOSE provider \in Providers :
        field \in {KeyField(provider), ModelField(provider), BaseUrlField(provider)}

\* The load effect of Settings: the stored settings, the keys that were
\* saved marked valid, and the tab of the preferred provider.
LoadedKeyValid(storedSettings) ==
    [provider \in Providers |->
        IF storedSettings[KeyField(provider)] # "" THEN Bool(TRUE) ELSE Null]

\* The order in which validateKeys validates the keys.
ValidationOrder == <<"openai", "anthropic", "gemini">>

\* The index in ValidationOrder of the first provider after index i whose
\* key in s is not empty, or 0.
RECURSIVE NextKeyed(_, _)
NextKeyed(s, i) ==
    IF i >= Len(ValidationOrder) THEN 0
    ELSE IF s[KeyField(ValidationOrder[i + 1])] # "" THEN i + 1
    ELSE NextKeyed(s, i + 1)

\* validateKeys with its last check lost: every outcome allows the save.
validateKeysLenient(s, hasValidKey) == hasValidKey = hasValidKey

\* The value validateKeys returns once every key of s was tried.
validateKeys(s, hasValidKey) ==
    IF ~hasValidKey /\ hasUserKeys(s) THEN FALSE ELSE hasValidKey

\* The record handleSave stores: the settings of its closure with the
\* provider of the tab of its closure.
updatedSettings(s, tab) ==
    IF tab \in {0, 1, 2}
    THEN [s EXCEPT !.preferredProvider = ProviderOfTab(tab)]
    ELSE s

\* The tail of handleSave: saveLlmSettings and the timer of onSettingsSaved.
SaveAndArm(s, tab) ==
    /\ savedTimers < MaxSavedTimers
    /\ stored' = saveLlmSettings(updatedSettings(s, tab))
    /\ savedTimers' = savedTimers + 1

\* Values entered in fields of the form: a key, a base URL, a model.
ExampleBaseUrl == "https://example.test/v1"
FormEdits ==
    {<<"openaiApiKey", KeyOf("openai")>>,
     <<"openaiBaseUrl", ExampleBaseUrl>>,
     <<"anthropicModel", "claude-instant-1">>}

\* isSaving (and with it isValidating) of the mounted component.
isSaving == saving # Null

FormShown == currentPage = "settings"

InitSettingsForm ==
    /\ stored \in AppSettings
    /\ calls = <<>>
    /\ lastCall = NoCall
    /\ currentPage = "settings"
    /\ llmConfigured = hasUserKeys(getStoredLlmSettings(stored))
    /\ companyData = Null
    /\ debugInfo = Null
    /\ isLoading = FALSE
    /\ error = Null
    /\ useVoiceOutput = FALSE
    /\ companyName = <<>>
    /\ isListening = FALSE
    /\ recognition = NoRecognition
    /\ timers = <<>>
    /\ saving = Null
    /\ savedTimers = 0
    /\ formSettings = getStoredLlmSettings(stored)
    /\ selectedTab = TabOf(getStoredLlmSettings(stored).preferredProvider)
    /\ keyValid = LoadedKeyValid(getStoredLlmSettings(stored))
    /\ InitNorm

\* handleChange from a field of the selected tab. The text fields are
\* disabled while saving; a model select is disabled without a key or with
\* a key found invalid. A key or a base URL that changes resets the mark of
\* its provider.
HandleChange(field, value) ==
    LET provider == ProviderOfField(field)
    IN  /\ FormShown
        /\ selectedTab = TabOf(provider)
        /\ IF field = ModelField(provider)
           THEN /\ formSettings[KeyField(provider)] # ""
                /\ keyValid[provider] # Bool(FALSE)
                /\ UNCHANGED keyValid
           ELSE /\ ~isSaving
                /\ keyValid' = [keyValid EXCEPT ![provider] = Null]
        /\ formSettings' = [formSettings EXCEPT ![field] = value]
        /\ UNCHANGED <<stored, selectedTab, pageVars, appVars, formVars, saveVars,
                       callVars, normVars>>

\* clearOpenAIKey, clearAnthropicKey, clearGeminiKey: the Clear button of
\* the selected tab, disabled when the key is empty.
ClearKey(provider) ==
    /\ FormShown
    /\ selectedTab = TabOf(provider)
    /\ formSettings[KeyField(provider)] # ""
    /\ formSettings' = [formSettings EXCEPT ![KeyField(provider)] = ""]
    /\ keyValid' = [keyValid EXCEPT ![provider] = Null]
    /\ UNCHANGED <<stored, selectedTab, pageVars, appVars, formVars, saveVars,
                   callVars, normVars>>

\* resetOpenAIBaseUrl, resetAnthropicBaseUrl, resetGeminiBaseUrl.
ResetBaseUrl(provider) ==
    /\ FormShown
    /\ selectedTab = TabOf(provider)
    /\ formSettings' = [formSettings EXCEPT
                       ![BaseUrlField(provider)] = DefaultSettings[BaseUrlField(provider)]]
    /\ keyValid' = [keyValid EXCEPT ![provider] = Null]
    /\ UNCHANGED <<stored, selectedTab, pageVars, appVars, formVars, saveVars,
                   callVars, normVars>>

\* Tabs onSelect.
SelectTab(tab) ==
    /\ FormShown
    /\ selectedTab' = tab
    /\ UNCHANGED <<stored, formSettings, keyValid, pageVars, appVars, formVars, saveVars,
                   callVars, normVars>>

\* handleSave from the Save button, which is disabled while saving: without
\* keys the settings are saved at once; with keys the call keeps the
\* settings and the tab of its closure and awaits the validation of the
\* first key.
ClickSave ==
    /\ FormShown
    /\ ~isSaving
    /\ IF hasUserKeys(formSettings)
       THEN /\ saving' = [settings |-> formSettings, selectedTab |-> selectedTab,
                          awaiting |-> NextKeyed(formSettings, 0), hasValidKey |-> FALSE]
            /\ UNCHANGED <<stored, savedTimers>>
       ELSE /\ SaveAndArm(formSettings, selectedTab)
            /\ UNCHANGED saving
    /\ UNCHANGED <<settingsVars, pageVars, appVars, formVars, callVars, normVars>>

\* The validation of the awaited key settles: validateOpenAIKey,
\* validateAnthropicKey or validateGeminiKey returns true (valid) or throws.
\* The mark of the key is set while the component is mounted. validateKeys
\* goes on to the next key; after the last one it returns, and handleSave
\* saves or returns.
KeyValidationSettles(valid) ==
    /\ saving # Null
    /\ LET provider == ValidationOrder[saving.awaiting]
           hasValidKey == saving.hasValidKey \/ valid
           next == NextKeyed(saving.settings, saving.awaiting)
       IN  /\ IF FormShown
              THEN keyValid' = [keyValid EXCEPT ![provider] = Bool(valid)]
              ELSE UNCHANGED keyValid
           /\ IF next # 0
              THEN /\ saving' = [saving EXCEPT !.awaiting = next,
                                               !.hasValidKey = hasValidKey]
                   /\ UNCHANGED <<stored, savedTimers>>
              ELSE /\ saving' = Null
                   /\ IF validateKeys(saving.settings, hasValidKey)
                      THEN SaveAndArm(saving.settings, saving.selectedTab)
                      ELSE UNCHANGED <<stored, savedTimers>>
    /\ UNCHANGED <<formSettings, selectedTab, pageVars, appVars, formVars, callVars,
                   normVars>>

NextSettingsForm ==
    \/ \E edit \in FormEdits : HandleChange(edit[1], edit[2])
    \/ \E provider \in Providers : ClearKey(provider)
    \/ \E provider \in Providers : ResetBaseUrl(provider)
    \/ \E tab \in {0, 1, 2} : SelectTab(tab)
    \/ ClickSave
    \/ \E valid \in BOOLEAN : KeyValidationSettles(valid)
    \/ SavedTimerFires
    \/ GoHome

SpecSettingsForm == InitSettingsForm /\ [][NextSettingsForm]_vars

-----------------------------------------------------------------------------
(* The parse-and-normalize tail of the adapters on its own, over reply      *)
(* texts of every shape.                                                    *)

\* Texts of a JSON value in the place of businessRegions or mainMarkets;
\* the empty text stands for a member that is missing.
ListFieldTexts ==
    {<<>>, <<"null">>, Lit("EU"), <<"7">>, <<"true">>, <<"{", "}">>,
     <<"[", "]">>, <<"[">> \o Lit("EU") \o <<",">> \o Lit("US") \o <<"]">>}

\* Texts of name, headquarters, founded and additionalInfo together:
\* missing, null, strings (empty ones too, and one that holds a code
\* fence) and numbers.
ScalarFieldTexts ==
    {<<<<>>, <<>>, <<>>, <<>>>>,
     <<<<"null">>, <<"null">>, <<"null">>, <<"null">>>>,
     <<Lit("Acme Corp"), Lit("Paris"), <<"1999">>, <<>>>>,
     <<Lit("Acme Corp"), Lit("Paris"), Lit("1999"), Lit("Since 1999")>>,
     <<Lit("Acme Corp"), Lit("Paris"), Lit("1999"), Lit(Fence)>>,
     <<Lit("Acme Corp"), <<Q, Q>>, Lit("1999"), <<>>>>,
     <<<<Q, Q>>, <<Q, Q>>, <<Q, Q>>, <<Q, Q>>>>,
     <<<<"7">>, Lit("Paris"), Lit("1999"), <<>>>>}

\* The members of an object text, the missing ones dropped.
RECURSIVE Members(_)
Members(fields) ==
    IF fields = <<>> THEN <<>>
    ELSE IF Head(fields)[2] = <<>> THEN Members(Tail(fields))
    ELSE LET rest == Members(Tail(fields))
         IN  Member(Head(fields)[1], Head(fields)[2])
             \o (IF rest = <<>> THEN <<>> ELSE <<",">> \o rest)

ObjectText(scalars, regions, markets) ==
    <<"{">> \o Members(<<<<"name", scalars[1]>>, <<"headquarters", scalars[2]>>,
                         <<"founded", scalars[3]>>, <<"businessRegions", regions>>,
                         <<"mainMarkets", markets>>,
                         <<"additionalInfo", scalars[4]>>>>) \o <<"}">>

\* Texts of a JSON object.
ObjectTexts ==
    {ObjectText(scalars, regions, markets) :
        scalars \in ScalarFieldTexts, regions \in ListFieldTexts, markets \in ListFieldTexts}

\* Reply texts that are a JSON value: objects, and values that are not
\* objects.
ValueTexts ==
    ObjectTexts
    \cup {<<"null">>, <<"7">>, <<"0">>, <<"true">>, Lit("Acme"), <<"[", "]">>,
          <<"[">> \o Lit("EU") \o <<"]">>}

\* A value text in a fenced block, with the tag or without it and with
\* line breaks around the block.
FencedWrappings(text) ==
    {<<Fence, "json", "\n">> \o text \o <<"\n", Fence>>,
     <<"\n", Fence, "\n">> \o text \o <<"\n", Fence, "\n">>}

\* A value text between two sentences, without a fence.
ProseWrapping(text) ==
    <<"Here", " ", "it", " ", "is:", " ">> \o text \o <<" ", "Hope", " ", "it", " ", "helps.">>

\* A value text as the whole reply, in a fenced block with or without the
\* tag, and between two sentences.
Wrappings(text) ==
    FencedWrappings(text) \cup
    {text,
     <<Fence, "json", "\n">> \o text \o <<"\n", Fence>>,
     <<"Here", " ", "it", " ", "is:", "\n", Fence, "\n">> \o text \o <<"\n", Fence>>,
     ProseWrapping(text)}

ReplyTexts == UNION {Wrappings(text) : text \in ValueTexts} \cup {ProseText}

InitNormalize ==
    /\ nContent \in ReplyTexts
    /\ nQuery \in {Acme, Nike}
    /\ nOutcome = Null
    /\ stored = DefaultSettings
    /\ calls = <<>>
    /\ lastCall = NoCall
    /\ InitUI

\* The tail of an adapter runs on the reply text.
Normalize ==
    /\ nOutcome = Null
    /\ nOutcome' = ParseContent(Str(nContent), nQuery)
    /\ UNCHANGED <<nContent, nQuery, stored, calls, lastCall, uiVars>>

NextNormalize == Normalize

SpecNormalize == InitNormalize /\ [][NextNormalize]_vars

-----------------------------------------------------------------------------
(* Claims about the orchestrator *)

\* The calls in flight and the call that ended last.
KnownCalls == {calls[i] : i \in DOMAIN calls} \cup (IF lastCall.ended THEN {lastCall} ELSE {})

AllKeysEmpty(settings) ==
    /\ settings.openaiApiKey = ""
    /\ settings.anthropicApiKey = ""
    /\ settings.geminiApiKey = ""

\* What the settings record holds for a provider.
ProviderKey(settings, provider) ==
    CASE provider = "openai" -> settings.openaiApiKey
      [] provider = "anthropic" -> settings.anthropicApiKey
      [] OTHER -> settings.geminiApiKey
ProviderModel(settings, provider) ==
    CASE provider = "openai" -> settings.openaiModel
      [] provider = "anthropic" -> settings.anthropicModel
      [] OTHER -> settings.geminiModel
ProviderBaseUrl(settings, provider) ==
    CASE provider = "openai" -> settings.openaiBaseUrl
      [] provider = "anthropic" -> settings.anthropicBaseUrl
      [] OTHER -> settings.geminiBaseUrl
AdapterOf(provider) ==
    CASE provider = "openai" -> "queryOpenAI"
      [] provider = "anthropic" -> "queryAnthropic"
      [] OTHER -> "queryGemini"
DebugTagOf(provider) ==
    CASE provider = "openai" -> "OpenAI"
      [] provider = "anthropic" -> "Anthropic"
      [] OTHER -> "Google Gemini"

\* The call invoked the adapter of the provider, with what the settings the
\* call read hold for that provider, and no other adapter.
InvokedExactly(call, provider) ==
    call.invoked = <<[adapter |-> AdapterOf(provider),
                      apiKey |-> ProviderKey(call.snapshot, provider),
                      model |-> ProviderModel(call.snapshot, provider),
                      baseUrl |-> ProviderBaseUrl(call.snapshot, provider)]>>

\* C1: with all three stored keys empty, lookupCompany throws the
\* configuration error that names the missing API keys, invokes no adapter
\* and issues no HTTP request (so no call with such settings is ever in
\* flight).
C1_NoKeysConfigurationError ==
    /\ \A i \in DOMAIN calls : ~AllKeysEmpty(calls[i].snapshot)
    /\ (lastCall.ended /\ AllKeysEmpty(lastCall.snapshot)) =>
          /\ lastCall.outcome.threw
          /\ lastCall.outcome.message = NoKeysMessage
          /\ lastCall.invoked = <<>>
          /\ lastCall.requests = <<>>
          /\ lastCall.result = Null

C1_Witness ==
    /\ lastCall.ended
    /\ AllKeysEmpty(lastCall.snapshot)
    /\ lastCall.query = Acme
    /\ lastCall.outcome.threw

\* C2: when the preferred provider has a non-empty key, the call invokes
\* exactly that provider's adapter, with that provider's key, model and
\* base URL, whatever the other two keys are.
C2_PreferredProviderUsed ==
    \A call \in KnownCalls :
        ProviderKey(call.snapshot, call.snapshot.preferredProvider) # "" =>
            InvokedExactly(call, call.snapshot.preferredProvider)

C2_Witness ==
    \E i \in DOMAIN calls :
        /\ calls[i].snapshot.preferredProvider = "anthropic"
        /\ calls[i].snapshot.openaiApiKey # ""
        /\ calls[i].snapshot.anthropicApiKey # ""
        /\ calls[i].snapshot.geminiApiKey # ""
        /\ calls[i].invoked[1].adapter = "queryAnthropic"

\* The first provider with a non-empty key in the order OpenAI, Anthropic,
\* Gemini.
FirstWithKey(settings) ==
    IF settings.openaiApiKey # "" THEN "openai"
    ELSE IF settings.anthropicApiKey # "" THEN "anthropic"
    ELSE "gemini"

\* C3: when the preferred provider has an empty key and another provider
\* has a key, the call invokes the first provider with a key in the order
\* OpenAI, Anthropic, Gemini, and the adapter's debug record carries that
\* provider's tag; with 'anthropic' preferred and only an OpenAI key, the
\* OpenAI adapter runs and the debug record's provider is 'OpenAI'.
C3_FallbackOrder ==
    /\ \A call \in KnownCalls :
          (/\ ProviderKey(call.snapshot, call.snapshot.preferredProvider) = ""
           /\ ~AllKeysEmpty(call.snapshot)) =>
              InvokedExactly(call, FirstWithKey(call.snapshot))
    /\ (/\ lastCall.ended
        /\ ProviderKey(lastCall.snapshot, lastCall.snapshot.preferredProvider) = ""
        /\ ~AllKeysEmpty(lastCall.snapshot)) =>
              lastCall.result.debug.provider = DebugTagOf(FirstWithKey(lastCall.snapshot))
    /\ (/\ lastCall.ended
        /\ lastCall.snapshot.preferredProvider = "anthropic"
        /\ lastCall.snapshot.openaiApiKey # ""
        /\ lastCall.snapshot.anthropicApiKey = ""
        /\ lastCall.snapshot.geminiApiKey = "") =>
              /\ lastCall.invoked[1].adapter = "queryOpenAI"
              /\ lastCall.result.debug.provider = "OpenAI"

C3_Witness ==
    /\ lastCall.ended
    /\ lastCall.snapshot.preferredProvider = "anthropic"
    /\ lastCall.snapshot.openaiApiKey # ""
    /\ lastCall.snapshot.anthropicApiKey = ""
    /\ lastCall.snapshot.geminiApiKey = ""
    /\ ~lastCall.outcome.threw
    /\ lastCall.outcome.debug.provider = "OpenAI"

\* C4: a call that passes the key check invokes exactly one adapter and
\* issues exactly one HTTP request, while it is in flight and when it has
\* ended, also when it ended in a failure and other providers have keys.
C4_OneAdapterOneRequest ==
    \A call \in KnownCalls :
        ~AllKeysEmpty(call.snapshot) =>
            /\ Len(call.invoked) = 1
            /\ Len(call.requests) = 1

C4_Witness ==
    /\ lastCall.ended
    /\ lastCall.snapshot.openaiApiKey # ""
    /\ lastCall.snapshot.anthropicApiKey # ""
    /\ lastCall.snapshot.geminiApiKey # ""
    /\ lastCall.outcome.threw
    /\ Len(lastCall.requests) = 1
    /\ calls = <<>>

MandatoryFields == {"name", "headquarters", "founded", "businessRegions", "mainMarkets"}

\* A record with the five mandatory fields, none of them undefined or null.
CompleteRecord(data) ==
    /\ MandatoryFields \subseteq DOMAIN data
    /\ \A f \in MandatoryFields : ~Throws(data[f])

ReturnsCompleteRecord(call) ==
    /\ ~call.outcome.threw
    /\ call.result # Null
    /\ call.result.response.success
    /\ call.outcome.data = call.result.response.data
    /\ CompleteRecord(call.outcome.data)

FailsWithAdapterMessage(call) ==
    /\ call.outcome.threw
    /\ call.result # Null
    /\ ~call.result.response.success
    /\ call.outcome.message = call.result.response.error

FailsWithConfigurationError(call) ==
    /\ call.outcome.threw
    /\ call.result = Null
    /\ AllKeysEmpty(call.snapshot)
    /\ call.outcome.message = NoKeysMessage

\* C5 as stated: every call ends by returning a complete record or by
\* failing with the adapter's failure message unchanged.
C5_AsStated ==
    lastCall.ended => (ReturnsCompleteRecord(lastCall) \/ FailsWithAdapterMessage(lastCall))

\* C5, amended: every call ends by returning a complete record, or by
\* failing with the adapter's failure message unchanged, or, when no key is
\* configured, by failing with the configuration error before any adapter
\* runs.
C5_CompleteRecordOrSingleError ==
    lastCall.ended =>
        \/ ReturnsCompleteRecord(lastCall)
        \/ FailsWithAdapterMessage(lastCall)
        \/ FailsWithConfigurationError(lastCall)

C5_Witness ==
    /\ lastCall.ended
    /\ FailsWithAdapterMessage(lastCall)
    /\ Includes(lastCall.outcome.message.s, <<"invalid", " ", "key">>)

\* C6: at most one lookupCompany call started by handleSearch is in flight
\* at any time, for every sequence of events of the search form.
C6_AtMostOneInFlight == Len(calls) <= 1

\* The provider a settings record selects: the preferred one when it has a
\* key, else the first with a key.
ProviderSelected(settings) ==
    IF ProviderKey(settings, settings.preferredProvider) # ""
    THEN settings.preferredProvider
    ELSE FirstWithKey(settings)

\* The key a request carries in its headers.
RequestKey(request) ==
    IF "xApiKey" \in DOMAIN request.headers THEN request.headers.xApiKey
    ELSE request.headers.Authorization[2]

\* The one request of the call carries the base URL, key and model that the
\* settings read at the start of the call hold for the provider they select.
SentFromSnapshot(call) ==
    LET provider == ProviderSelected(call.snapshot)
    IN  /\ InvokedExactly(call, provider)
        /\ Len(call.requests) = 1
        /\ call.requests[1].url[1] = ProviderBaseUrl(call.snapshot, provider)
        /\ RequestKey(call.requests[1]) = ProviderKey(call.snapshot, provider)
        /\ ProviderModel(call.snapshot, provider) # "" =>
              call.requests[1].model = ProviderModel(call.snapshot, provider)

\* C7: whatever is saved while a lookup is in flight, the adapter invoked,
\* the request sent and, once the call has ended, the adapter result all
\* come from the settings the call read at its start.
C7_SettingsSnapshot ==
    /\ \A i \in DOMAIN calls : SentFromSnapshot(calls[i])
    /\ (lastCall.ended /\ lastCall.result # Null) =>
          /\ SentFromSnapshot(lastCall)
          /\ lastCall.result.debug.provider =
                DebugTagOf(ProviderSelected(lastCall.snapshot))
          /\ lastCall.result.debug.model =
                ProviderModel(lastCall.snapshot, ProviderSelected(lastCall.snapshot))

\* A lookup is in flight that started under settings other than those now
\* stored, which select another provider.
C7_Witness ==
    \E i \in DOMAIN calls :
        /\ hasUserKeys(stored)
        /\ ProviderSelected(stored) # ProviderSelected(calls[i].snapshot)

\* The tail of an adapter has run on the reply text and produced a record.
Normalized == nOutcome # Null /\ nOutcome.success

\* The value the reply text parsed to: that of the whole text when it is
\* JSON (and not null), else that of the candidate extracted from it.
ParsedReply ==
    LET direct == JSONparse(nContent)
    IN  IF direct.ok /\ ~Throws(direct.val) THEN direct.val
        ELSE JSONparse(cleanedJson(jsonMatch(nContent))).val

\* C8: in every record of a successful outcome, name, headquarters,
\* founded, businessRegions and mainMarkets are present and none of them is
\* undefined or null, whatever value the reply text parsed to.
C8_MandatoryFieldsDefined == Normalized => CompleteRecord(nOutcome.data)

\* A record was produced from an object whose members are null.
C8_Witness ==
    /\ Normalized
    /\ ParsedReply.t = "obj"
    /\ \A f \in MandatoryFields : <<f>> \in DOMAIN ParsedReply.o /\ Get(ParsedReply, f) = Null

ListFields == {"businessRegions", "mainMarkets"}

\* C9: when businessRegions (mainMarkets) of the parsed reply is missing,
\* null or any value that is not a list, the record's field is exactly
\* ["Global"]; a list is kept as it is.
C9_NonListBecomesGlobal ==
    Normalized =>
        \A f \in ListFields :
            IF Get(ParsedReply, f).t = "arr"
            THEN nOutcome.data[f] = Get(ParsedReply, f)
            ELSE nOutcome.data[f] = Arr(<<Str(<<"Global">>)>>)

\* A record was produced from an object whose businessRegions is a string
\* and whose mainMarkets is a list of two.
C9_Witness ==
    /\ Normalized
    /\ Get(ParsedReply, "businessRegions") = W("EU")
    /\ Get(ParsedReply, "mainMarkets") = Arr(<<W("EU"), W("US")>>)
    /\ nOutcome.data.businessRegions = Arr(<<Str(<<"Global">>)>>)
    /\ nOutcome.data.mainMarkets = Arr(<<W("EU"), W("US")>>)

\* C10: in every record the normalizer returns, businessRegions and
\* mainMarkets are non-empty sequences.
C10_ListsNonEmpty ==
    Normalized =>
        \A f \in ListFields :
            nOutcome.data[f].t = "arr" /\ nOutcome.data[f].a # <<>>

\* C11: when the name of the parsed reply is missing, null or empty, the
\* record's name is the query passed to the lookup; and the name of every
\* returned record is a non-empty string.
C11_NameIsQueryOrNonEmptyString ==
    Normalized =>
        /\ (Get(ParsedReply, "name") \in {Undefined, Null, Str(<<>>)}) =>
              nOutcome.data.name = Str(nQuery)
        /\ nOutcome.data.name.t = "str"
        /\ nOutcome.data.name.s # <<>>

StringFields == {"name", "headquarters", "founded"}

\* A reply object that holds the five fields, the first three as strings and
\* the last two as lists.
WellFormedReply(v) ==
    /\ v.t = "obj"
    /\ \A f \in StringFields : Get(v, f).t = "str"
    /\ \A f \in ListFields : Get(v, f).t = "arr"

\* The five fields of the record are those of the reply.
FiveFieldsVerbatim == \A f \in MandatoryFields : nOutcome.data[f] = Get(ParsedReply, f)

C13_FencedAsBare ==
    \A text \in ObjectTexts :
        (nOutcome # Null /\ nContent \in FencedWrappings(text)) =>
            nOutcome = ParseContent(Str(text), nQuery)

\* C14: a reply made of prose, one object text and prose, with no code
\* fence, has the outcome of the object text alone: the whole object is
\* extracted and its record returned, also when the object holds a nested
\* object.
C14_ObjectBetweenProse ==
    \A text \in ObjectTexts :
        (/\ nOutcome # Null
         /\ IndexFrom(text, Fence, 1) = 0
         /\ nContent = ProseWrapping(text)) =>
            /\ nOutcome.success
            /\ nOutcome = ParseContent(Str(text), nQuery)

\* The last call ended after its fetch returned a response.
GotResponse == lastCall.ended /\ lastCall.net # Null /\ lastCall.net.kind = "response"

\* C15: on a response that is not ok, the adapter returns a failure whose
\* message carries the error.message of the body when it has one and the
\* status text otherwise, also when the body is not JSON, and the debug
\* record's rawResponse is the error body printed with indentation.
C15_ErrorStatusOutcome ==
    (GotResponse /\ ~lastCall.net.ok) =>
        LET body == lastCall.net.body
            message == IF body.json
                       THEN GetOpt(GetOpt(body.val, "error"), "message")
                       ELSE Undefined
            carried == IF Truthy(message) THEN ToText(message)
                       ELSE lastCall.net.statusText
        IN  /\ ~lastCall.result.response.success
            /\ Includes(lastCall.result.response.error.s, carried)
            /\ body.json => lastCall.result.debug.rawResponse = Stringify(body.val, 2)

\* v[0] of a value that may be null or undefined.
FirstOpt(v) == IF Throws(v) THEN Undefined ELSE First(v)

\* The assistant's text in the envelope of the adapter's provider, when
\* every step of the path may be missing: choices[0].message.content for
\* OpenAI and Gemini, content[0].text for Anthropic.
AssistantText(adapter, data) ==
    IF adapter = "queryAnthropic"
    THEN GetOpt(FirstOpt(GetOpt(data, "content")), "text")
    ELSE GetOpt(GetOpt(FirstOpt(GetOpt(data, "choices")), "message"), "content")

EmptyResponseMessage(adapter) ==
    CASE adapter = "queryOpenAI" -> Str(<<"Empty response from OpenAI">>)
      [] adapter = "queryAnthropic" -> Str(<<"Empty response from Anthropic">>)
      [] OTHER -> Str(<<"Empty response from Gemini">>)

\* C16: on an ok response whose body holds no assistant text (the envelope
\* key is missing, the list is empty, the message is missing or the content
\* is empty or null), the adapter returns the failure "Empty response from
\* <provider>" and the debug record's rawResponse is the body printed with
\* indentation.
C16_EmptyResponse ==
    (/\ GotResponse
     /\ lastCall.net.ok
     /\ lastCall.net.body.json
     /\ ~Truthy(AssistantText(lastCall.invoked[1].adapter, lastCall.net.body.val))) =>
        /\ ~lastCall.result.response.success
        /\ lastCall.result.response.error =
              EmptyResponseMessage(lastCall.invoked[1].adapter)
        /\ lastCall.result.debug.rawResponse = Stringify(lastCall.net.body.val, 2)

DebugFields == {"provider", "model", "prompt", "rawResponse"}

\* The description of the error of a network call that failed: the reason
\* of the rejection of fetch, or the error of reading a body that is not
\* JSON.
NetworkError(net) ==
    IF net.kind = "reject" THEN net.err ELSE SyntaxErrorText

NetworkFailed(net) == net.kind = "reject" \/ ~net.body.json

\* C17: every call that invoked an adapter got a result from it, an outcome
\* paired with a debug record; when fetch rejected or the body could not be
\* read, the outcome is a failure whose message embeds the description of
\* the error, and rawResponse is the serialized description of the error.
C17_AdapterNeverThrows ==
    (lastCall.ended /\ lastCall.invoked # <<>>) =>
        /\ lastCall.result # Null
        /\ DOMAIN lastCall.result = {"response", "debug"}
        /\ DOMAIN lastCall.result.debug = DebugFields
        /\ lastCall.result.response.success \in BOOLEAN
        /\ NetworkFailed(lastCall.net) =>
              /\ ~lastCall.result.response.success
              /\ Includes(lastCall.result.response.error.s, NetworkError(lastCall.net))
              /\ lastCall.result.debug.rawResponse =
                    Stringify(Obj(<<"error">> :> Str(NetworkError(lastCall.net))), 0)

\* The fetch of the Anthropic adapter rejected and the call has ended.
C17_Witness ==
    /\ lastCall.ended
    /\ lastCall.invoked # <<>>
    /\ lastCall.invoked[1].adapter = "queryAnthropic"
    /\ lastCall.net.kind = "reject"
    /\ lastCall.result.debug.provider = "Anthropic"
    /\ ~lastCall.result.response.success

\* The content of the user message of a request.
UserPrompt(request) ==
    LET i == CHOOSE i \in DOMAIN request.messages : request.messages[i].role = "user"
    IN  request.messages[i].content

TagOfAdapter(adapter) ==
    CASE adapter = "queryOpenAI" -> "OpenAI"
      [] adapter = "queryAnthropic" -> "Anthropic"
      [] OTHER -> "Google Gemini"

\* C18: the debug record of an attempt carries the tag of the adapter that
\* ran, the prompt of the user message of the request that was sent, and
\* the model of the body of that request, for every stored model, the empty
\* one too.
C18_DebugDescribesRequest ==
    (lastCall.ended /\ lastCall.result # Null) =>
        /\ lastCall.result.debug.provider = TagOfAdapter(lastCall.invoked[1].adapter)
        /\ lastCall.result.debug.prompt = UserPrompt(lastCall.requests[1])
        /\ lastCall.result.debug.model = lastCall.requests[1].model

\* C19: when the reply is not JSON itself and holds no fenced block, the
\* candidate that the brace fallback hands to the parser is the text from
\* the first opening brace to the brace that closes it, the complete
\* object, and not a prefix that ends at the first closing brace.
C19_BraceCandidateIsWholeObject ==
    \A text \in ObjectTexts :
        (/\ nOutcome # Null
         /\ IndexFrom(text, Fence, 1) = 0
         /\ nContent = ProseWrapping(text)) =>
            /\ ~JSONparse(nContent).ok
            /\ ~FenceMatch(nContent).found
            /\ jsonString(jsonMatch(nContent)) = text

\* C20: from the start of a lookup by handleSearch until it returns, the App
\* holds no debug record, and after a lookup that failed debugInfo is still
\* null.
C20_DebugDiscardedDuringLookup ==
    /\ calls # <<>> => debugInfo = Null
    /\ (calls = <<>> /\ lastCall.ended /\ lastCall.outcome.threw) => debugInfo = Null

\* A step in which handleSearch is called with a blank company name, by the
\* Search button, the Enter key or the timer of a voice transcript.
BlankSearch ==
    \/ (ClickSearch \/ PressEnter) /\ Trim(companyName) = <<>>
    \/ \E i \in DOMAIN timers : Trim(timers[i]) = <<>> /\ VoiceTimerFires(i)

\* C21: no lookupCompany call, and so no request, is ever made for a blank
\* company name, and a handleSearch call with a blank name leaves isLoading,
\* error, companyData and debugInfo as they were.
C21_BlankQueryRejected ==
    /\ [](\A call \in KnownCalls : Trim(call.query) # <<>>)
    /\ [][BlankSearch =>
            UNCHANGED <<isLoading, error, companyData, debugInfo, calls, lastCall>>]_vars

\* The timer of a blank voice transcript has fired while the recognition
\* was still listening, and nothing is loading.
C21_Witness ==
    /\ recognition = [state |-> "result", orphan |-> FALSE]
    /\ isListening
    /\ Trim(companyName) = <<>>
    /\ timers = <<>>
    /\ calls = <<>>
    /\ ~isLoading

\* C22: isLoading is true exactly when at least one lookupCompany call
\* started by handleSearch is in flight.
C22_LoadingIffInFlight == isLoading <=> calls # <<>>

\* C23: whenever no lookup is in flight and a lookup has completed, either
\* error is null and companyData is the record returned by the lookup that
\* completed last, or error is the message of that lookup and companyData
\* is null.
C23_OneOutcomeShown ==
    (calls = <<>> /\ lastCall.ended) =>
        IF lastCall.outcome.threw
        THEN error = lastCall.outcome.message /\ companyData = Null
        ELSE error = Null /\ companyData = lastCall.outcome.data

\* C24: whenever the home view is shown, llmConfigured equals whether the
\* persisted settings contain at least one non-empty API key.
C24_ConfiguredMatchesStorage ==
    currentPage = "home" =>
        (llmConfigured <=> hasUserKeys(getStoredLlmSettings(stored)))

\* C25: the persisted settings change only in a step of handleSave;
\* handleSave writes only if the three keys of its settings are empty or
\* validateKeys found a key valid; when every key that was tried failed,
\* the persisted settings are left as they were; and editing, clearing or
\* resetting a field never writes to storage.
FormEdit ==
    \/ \E edit \in FormEdits : HandleChange(edit[1], edit[2])
    \/ \E provider \in Providers : ClearKey(provider) \/ ResetBaseUrl(provider)

SaveAllowed ==
    IF saving = Null
    THEN ~hasUserKeys(formSettings)
    ELSE saving.hasValidKey \/ KeyValidationSettles(TRUE)

EveryKeyFailed == saving # Null /\ ~saving.hasValidKey /\ KeyValidationSettles(FALSE)

C25_SaveGatedOnValidation ==
    /\ [][stored' # stored =>
            (ClickSave \/ \E valid \in BOOLEAN : KeyValidationSettles(valid))]_vars
    /\ [][savedTimers' > savedTimers => SaveAllowed]_vars
    /\ [][EveryKeyFailed => stored' = stored]_vars
    /\ [][FormEdit => stored' = stored]_vars

C25_Witness ==
    /\ FormShown /\ saving = Null /\ savedTimers = 0
    /\ formSettings.openaiApiKey # "" /\ keyValid["openai"] = Bool(FALSE)
    /\ formSettings.anthropicApiKey = "" /\ formSettings.geminiApiKey = ""
    /\ stored.openaiApiKey = ""

\* C26: after every successful save, the persisted preferredProvider is the
\* provider of the tab that was selected when Save was clicked, and all
\* other persisted fields equal the current values of the form.
TabAtSave == IF saving = Null THEN selectedTab ELSE saving.selectedTab

C26_SavedIsFormWithTabProvider ==
    [][(savedTimers' > savedTimers /\ FormShown) =>
          stored' = [formSettings EXCEPT !.preferredProvider = ProviderOfTab(TabAtSave)]]_vars

====
